---- MODULE Spec2Model ----
(***************************************************************************)
(* Model of the pricing calculator's client-side orchestration             *)
(* (src/src/App.tsx): the form state, the submit/retry/back handlers, the  *)
(* network call in flight and the state the component keeps in useState.   *)
(*                                                                         *)
(* Four specifications are defined:                                        *)
(*   Spec         the component as the user drives it: a handler runs only *)
(*                when the control bound to it is rendered and enabled;    *)
(*   SpecHandlers the handlers as operations, invoked in any state (what a *)
(*                programmatic caller of handleSubmit/handleRetry/         *)
(*                handleBackToForm gets, with no presentation layer);      *)
(*   SpecForm     the pure functions of the form (isFormValid and the      *)
(*                request payload) applied to every FormData value;        *)
(*   SpecLayouts  the two-screen component next to the split-pane          *)
(*                component (src/src/App_fixed.tsx), both given the same   *)
(*                edits, submits and network outcomes.                     *)
(***************************************************************************)
EXTENDS Integers, Sequences, FiniteSets, TLC

VARIABLES
    formData,     \* useState<FormData>
    isLoading,    \* useState(false)
    estimate,     \* useState<CostEstimate | null>
    error,        \* useState<string | null>
    showResults,  \* useState(false)
    inflight,     \* fetch calls issued and not yet settled, oldest first
    lastSubmit,   \* history: <<payload>> of the most recent form submit, or <<>>
    lastOp,       \* history: the operation that produced this state
    lastFrom,     \* history: the controller state that operation ran in
    lastResponse, \* history: what the request settled with, if lastOp settled one
    fixed         \* the split-pane component (App_fixed.tsx): its useState values
                  \* and its fetch calls in flight

vars == <<formData, isLoading, estimate, error, showResults, inflight,
          lastSubmit, lastOp, lastFrom, lastResponse, fixed>>

(***************************************************************************)
(* Bounds                                                                  *)
(***************************************************************************)
\* SpecHandlers only: the handlers themselves never limit the number of
\* fetch calls, so the model caps it.
MaxInflight == 2

(***************************************************************************)
(* JavaScript values                                                       *)
(***************************************************************************)
\* A decoded JSON value other than an array, or undefined. `id` is the identity
\* of an object (or the value of a number); `missing` names the required key
\* an object lacks ("" when it lacks none); `range` is the range triple
\* costSummary.totalMonthlyCostRange of an estimate record.
NoRange == [min |-> 0, avg |-> 0, max |-> 0]

\* A range triple with min <= avg <= max, and one that violates it.
OrderedRange == [min |-> 10, avg |-> 20, max |-> 30]

UnorderedRange == [min |-> 30, avg |-> 20, max |-> 10]

JsNull == [k |-> "null", id |-> 0, missing |-> "", range |-> NoRange]

JsUndefined == [k |-> "undefined", id |-> 0, missing |-> "", range |-> NoRange]

JsObjectWithRange(n, miss, range) ==
    [k |-> "object", id |-> n, missing |-> miss, range |-> range]

JsObject(n, miss) == JsObjectWithRange(n, miss, OrderedRange)

JsNumber(n) == [k |-> "number", id |-> n, missing |-> "", range |-> NoRange]

\* An array held where a record is expected.
JsArray == [k |-> "array", id |-> 0, missing |-> "", range |-> NoRange]

JsNaN == [k |-> "NaN", id |-> 0, missing |-> "", range |-> NoRange]

\* ToBoolean on such a value (estimate ? ... : ...).
Truthy(v) == v.k = "object" \/ (v.k = "number" /\ v.id # 0)

\* The operands of the && chain of isFormValid: a boolean or a string.
JsBool(b) == [k |-> "boolean", b |-> b, s |-> ""]

JsString(str) == [k |-> "string", b |-> FALSE, s |-> str]

JsTruthy(v) == IF v.k = "boolean" THEN v.b ELSE v.s # ""

\* a && b: a when a is falsy, b otherwise.
JsAnd(a, b) == IF JsTruthy(a) THEN b ELSE a

\* error: string | null. The null of the error state is written "null" here.
NullMessage == "null"

FailureMessage == "Failed to calculate cost estimate. Please try again."

(***************************************************************************)
(* FormData                                                                *)
(***************************************************************************)
ActiveFields == {"callsPerDay", "avgCallDuration", "estimatedUsers",
                 "llmProvider", "sttProvider", "ttsProvider",
                 "knowledgeBaseSize"}

CustomFields == {"customLlmProvider", "customSttProvider", "customTtsProvider"}

AllFields == ActiveFields \cup CustomFields \cup {"selfHosted", "gpuInstanceType"}

\* initialFormData with an option preselected in each select.
initialFormDataPreselected ==
    [callsPerDay |-> 50, avgCallDuration |-> 5, estimatedUsers |-> 10,
     llmProvider |-> "OpenAI", customLlmProvider |-> "",
     sttProvider |-> "Deepgram", customSttProvider |-> "",
     ttsProvider |-> "ElevenLabs", customTtsProvider |-> "",
     knowledgeBaseSize |-> "Small (< 1MB)", selfHosted |-> FALSE,
     gpuInstanceType |-> ""]

initialFormData ==
    [callsPerDay |-> 50, avgCallDuration |-> 5, estimatedUsers |-> 10,
     llmProvider |-> "", customLlmProvider |-> "",
     sttProvider |-> "", customSttProvider |-> "",
     ttsProvider |-> "", customTtsProvider |-> "",
     knowledgeBaseSize |-> "", selfHosted |-> FALSE, gpuInstanceType |-> ""]

\* parseInt on the texts typed into the numeric inputs here: the integer a
\* text starts with, NaN for a text that starts with none.
parseInt(text) ==
    CASE text = "50" -> JsNumber(50)
      [] text = "10" -> JsNumber(10)
      [] text = "5" -> JsNumber(5)
      [] text = "0" -> JsNumber(0)
      [] text = "-1" -> JsNumber(-1)
      [] OTHER -> JsNaN

\* parseInt(e.target.value) || 0: NaN and 0 are falsy and give 0.
parseIntOrZero(text) ==
    LET n == parseInt(text) IN IF Truthy(n) THEN n.id ELSE 0

\* The values an input can hand to handleInputChange: parseInt(v) || 0 of the
\* text typed for the numeric inputs, the option values for the selects. A
\* sample of each.
FieldValues(field) ==
    CASE field = "callsPerDay" -> {parseIntOrZero(t) : t \in {"-1", "", "50"}}
      [] field = "avgCallDuration" -> {parseIntOrZero(t) : t \in {"0", "5"}}
      [] field = "estimatedUsers" -> {parseIntOrZero(t) : t \in {"abc", "10"}}
      [] field = "llmProvider" -> {"", "OpenAI"}
      [] field = "sttProvider" -> {"", "Deepgram"}
      [] field = "ttsProvider" -> {"", "ElevenLabs"}
      [] field = "knowledgeBaseSize" -> {"", "Small (< 1MB)", "Medium (1-10MB)"}
      [] field = "selfHosted" -> BOOLEAN
      [] field = "gpuInstanceType" -> {"", "g4dn.xlarge"}
      [] OTHER -> {"", "Custom"}

\* requestData with the stored selfHosted and gpuInstanceType passed through.
requestDataKeepsSelfHosted(fd) ==
    [callsPerDay |-> fd.callsPerDay,
     avgCallDuration |-> fd.avgCallDuration,
     estimatedUsers |-> fd.estimatedUsers,
     llmProvider |-> fd.llmProvider,
     sttProvider |-> fd.sttProvider,
     ttsProvider |-> fd.ttsProvider,
     knowledgeBaseSize |-> fd.knowledgeBaseSize,
     selfHosted |-> fd.selfHosted,
     gpuInstanceType |-> fd.gpuInstanceType]

\* requestData with knowledgeBaseSize left out of the projection.
requestDataDropsKnowledgeBase(fd) ==
    [callsPerDay |-> fd.callsPerDay,
     avgCallDuration |-> fd.avgCallDuration,
     estimatedUsers |-> fd.estimatedUsers,
     llmProvider |-> fd.llmProvider,
     sttProvider |-> fd.sttProvider,
     ttsProvider |-> fd.ttsProvider,
     knowledgeBaseSize |-> "",
     selfHosted |-> FALSE,
     gpuInstanceType |-> ""]

\* The object handleSubmit serialises into the request body.
requestData(fd) ==
    [callsPerDay |-> fd.callsPerDay,
     avgCallDuration |-> fd.avgCallDuration,
     estimatedUsers |-> fd.estimatedUsers,
     llmProvider |-> fd.llmProvider,
     sttProvider |-> fd.sttProvider,
     ttsProvider |-> fd.ttsProvider,
     knowledgeBaseSize |-> fd.knowledgeBaseSize,
     selfHosted |-> FALSE,
     gpuInstanceType |-> ""]

\* isFormValid without its last operand.
isFormValidSkipsKnowledgeBase(fd) ==
    JsAnd(JsBool(fd.callsPerDay > 0),
    JsAnd(JsBool(fd.avgCallDuration > 0),
    JsAnd(JsBool(fd.estimatedUsers > 0),
    JsAnd(JsString(fd.llmProvider),
    JsAnd(JsString(fd.sttProvider),
          JsString(fd.ttsProvider))))))

\* isFormValid without the callsPerDay > 0 operand.
isFormValidSkipsCallsPerDay(fd) ==
    JsAnd(JsBool(fd.avgCallDuration > 0),
    JsAnd(JsBool(fd.estimatedUsers > 0),
    JsAnd(JsString(fd.llmProvider),
    JsAnd(JsString(fd.sttProvider),
    JsAnd(JsString(fd.ttsProvider),
          JsString(fd.knowledgeBaseSize))))))

\* isFormValid(): the value of the && chain, as JavaScript evaluates it.
isFormValid(fd) ==
    JsAnd(JsBool(fd.callsPerDay > 0),
    JsAnd(JsBool(fd.avgCallDuration > 0),
    JsAnd(JsBool(fd.estimatedUsers > 0),
    JsAnd(JsString(fd.llmProvider),
    JsAnd(JsString(fd.sttProvider),
    JsAnd(JsString(fd.ttsProvider),
          JsString(fd.knowledgeBaseSize)))))))

(***************************************************************************)
(* Responses of the webhook                                                *)
(***************************************************************************)
\* Two well-formed estimate records, one lacking a required key, null, a
\* scalar, and a structurally complete record whose range triple is out of
\* order.
Docs == {JsObject(1, ""), JsObject(2, ""), JsObject(3, "costSummary"), JsNull,
         JsNumber(7), JsObjectWithRange(5, "", UnorderedRange)}

\* The body of a response with a non-ok status: here a complete estimate
\* record, which no ok response carries.
ErrorBody == JsObject(4, "")

\* lastResponse when the last operation settled no request.
NoResponse ==
    [net |-> "none", ok |-> FALSE, json |-> FALSE, isArray |-> FALSE, items |-> <<>>]

\* How a fetch call can settle: the promise rejects; it resolves with a
\* non-ok status; it resolves ok and response.json() rejects; it resolves ok
\* with a decoded document, which is an array (isArray, its elements in
\* items) or not (the document is items[1]).
Responses ==
    {[net |-> "rejected", ok |-> FALSE, json |-> FALSE, isArray |-> FALSE, items |-> <<>>],
     [net |-> "resolved", ok |-> FALSE, json |-> TRUE, isArray |-> FALSE,
      items |-> <<ErrorBody>>],
     [net |-> "resolved", ok |-> TRUE, json |-> FALSE, isArray |-> FALSE, items |-> <<>>]}
    \cup {[net |-> "resolved", ok |-> TRUE, json |-> TRUE, isArray |-> FALSE,
           items |-> <<d>>] : d \in Docs}
    \cup {[net |-> "resolved", ok |-> TRUE, json |-> TRUE, isArray |-> TRUE,
           items |-> s] : s \in {<<>>, <<JsObject(1, "")>>,
                                 <<JsObject(2, ""), JsObject(1, "")>>}}

\* estimateData without the Array.isArray unwrap: an array is kept as it is.
estimateDataNoUnwrap(r) == IF r.isArray THEN JsArray ELSE r.items[1]

\* estimateData with the range triple put in order.
estimateDataSortsRange(r) ==
    LET d == IF r.isArray
             THEN IF Len(r.items) >= 1 THEN r.items[1] ELSE JsUndefined
             ELSE r.items[1]
        vals == {d.range.min, d.range.avg, d.range.max}
        lo == CHOOSE x \in vals : \A y \in vals : x <= y
        hi == CHOOSE x \in vals : \A y \in vals : x >= y
    IN  [d EXCEPT !.range = [min |-> lo,
                             avg |-> d.range.min + d.range.avg + d.range.max - lo - hi,
                             max |-> hi]]

\* Array.isArray(data) ? data[0] : data
estimateData(r) ==
    IF r.isArray
    THEN IF Len(r.items) >= 1 THEN r.items[1] ELSE JsUndefined
    ELSE r.items[1]

\* Throws without the response.ok check.
ThrowsIgnoresStatus(r) == r.net = "rejected" \/ ~r.json

\* The try block throws: fetch rejected, !response.ok, or json() rejected.
Throws(r) == r.net = "rejected" \/ ~r.ok \/ ~r.json

(***************************************************************************)
(* The controller state of the specification, read off the component state *)
(***************************************************************************)
CtlState ==
    IF isLoading THEN "Submitting"
    ELSE IF error # NullMessage THEN "Failed"
    ELSE IF Truthy(estimate) THEN "Success"
    ELSE "Idle"

(***************************************************************************)
(* Handlers                                                                *)
(***************************************************************************)
\* handleInputChange without the ...prev spread: the other fields are lost
\* (here: back at their initial values).
handleInputChangeReplacesForm(field, value) ==
    /\ formData' = [initialFormData EXCEPT ![field] = value]
    /\ UNCHANGED <<isLoading, estimate, error, showResults, inflight, lastSubmit>>

\* handleInputChange(field, value)
handleInputChange(field, value) ==
    /\ formData' = [formData EXCEPT ![field] = value]
    /\ UNCHANGED <<isLoading, estimate, error, showResults, inflight, lastSubmit>>

\* handleSubmit without setError(null).
handleSubmitKeepsError(by) ==
    /\ isLoading' = TRUE
    /\ UNCHANGED error
    /\ inflight' = Append(inflight, [payload |-> requestData(formData), by |-> by])
    /\ lastSubmit' = IF by = "submit" THEN <<requestData(formData)>> ELSE lastSubmit
    /\ UNCHANGED <<formData, estimate, showResults>>

\* handleSubmit without setIsLoading(true).
handleSubmitKeepsLoadingFlag(by) ==
    /\ UNCHANGED isLoading
    /\ error' = NullMessage
    /\ inflight' = Append(inflight, [payload |-> requestData(formData), by |-> by])
    /\ lastSubmit' = IF by = "submit" THEN <<requestData(formData)>> ELSE lastSubmit
    /\ UNCHANGED <<formData, estimate, showResults>>

\* handleSubmit up to the await of fetch: the request is built from the form
\* data of the render the handler belongs to and sent.
handleSubmit(by) ==
    /\ isLoading' = TRUE
    /\ error' = NullMessage
    /\ inflight' = Append(inflight, [payload |-> requestData(formData), by |-> by])
    /\ lastSubmit' = IF by = "submit" THEN <<requestData(formData)>> ELSE lastSubmit
    /\ UNCHANGED <<formData, estimate, showResults>>

\* handleRetry: setError(null), then handleSubmit.
handleRetry == handleSubmit("retry")

\* handleBackToForm without setError(null).
handleBackToFormKeepsError ==
    /\ showResults' = FALSE
    /\ estimate' = JsNull
    /\ UNCHANGED <<formData, isLoading, error, inflight, lastSubmit>>

\* handleBackToForm without setEstimate(null).
handleBackToFormKeepsEstimate ==
    /\ showResults' = FALSE
    /\ error' = NullMessage
    /\ UNCHANGED <<formData, isLoading, estimate, inflight, lastSubmit>>

\* handleBackToForm that also puts the form back to its initial values.
handleBackToFormResetsForm ==
    /\ showResults' = FALSE
    /\ estimate' = JsNull
    /\ error' = NullMessage
    /\ formData' = initialFormData
    /\ UNCHANGED <<isLoading, inflight, lastSubmit>>

\* handleBackToForm
handleBackToForm ==
    /\ showResults' = FALSE
    /\ estimate' = JsNull
    /\ error' = NullMessage
    /\ UNCHANGED <<formData, isLoading, inflight, lastSubmit>>

\* settle without setShowResults(true).
settleKeepsScreen(i, r) ==
    /\ inflight' = SubSeq(inflight, 1, i - 1) \o SubSeq(inflight, i + 1, Len(inflight))
    /\ IF Throws(r)
       THEN /\ error' = FailureMessage
            /\ UNCHANGED estimate
       ELSE /\ estimate' = estimateData(r)
            /\ UNCHANGED error
    /\ isLoading' = FALSE
    /\ UNCHANGED <<formData, lastSubmit, showResults>>

\* settle without the finally block.
settleKeepsLoading(i, r) ==
    /\ inflight' = SubSeq(inflight, 1, i - 1) \o SubSeq(inflight, i + 1, Len(inflight))
    /\ IF Throws(r)
       THEN /\ error' = FailureMessage
            /\ UNCHANGED <<estimate, showResults>>
       ELSE /\ estimate' = estimateData(r)
            /\ showResults' = TRUE
            /\ UNCHANGED error
    /\ UNCHANGED <<formData, lastSubmit, isLoading>>

\* settle with the catch block also discarding the stored estimate.
settleFailureClearsEstimate(i, r) ==
    /\ inflight' = SubSeq(inflight, 1, i - 1) \o SubSeq(inflight, i + 1, Len(inflight))
    /\ IF Throws(r)
       THEN /\ error' = FailureMessage
            /\ estimate' = JsNull
            /\ UNCHANGED showResults
       ELSE /\ estimate' = estimateData(r)
            /\ showResults' = TRUE
            /\ UNCHANGED error
    /\ isLoading' = FALSE
    /\ UNCHANGED <<formData, lastSubmit>>

\* handleSubmit from the await on: request i settles with r.
settle(i, r) ==
    /\ inflight' = SubSeq(inflight, 1, i - 1) \o SubSeq(inflight, i + 1, Len(inflight))
    /\ IF Throws(r)
       THEN /\ error' = FailureMessage
            /\ UNCHANGED <<estimate, showResults>>
       ELSE /\ estimate' = estimateData(r)
            /\ showResults' = TRUE
            /\ UNCHANGED error
    /\ isLoading' = FALSE
    /\ UNCHANGED <<formData, lastSubmit>>

(***************************************************************************)
(* What the component renders                                              *)
(***************************************************************************)
\* Rendering the results of a truthy estimate reads
\* estimate.costSummary.totalMonthlyCostRange.min and the like: it throws on
\* a value without those keys, and the component tree is unmounted.
RenderThrows ==
    /\ showResults
    /\ Truthy(estimate)
    /\ (estimate.k # "object" \/ estimate.missing # "")

FormRendered == ~showResults

\* The submit button without the isLoading operand of disabled.
SubmitEnabledIgnoresLoading == FormRendered /\ JsTruthy(isFormValid(formData))

\* The submit button without the !isFormValid() operand of disabled.
SubmitEnabledIgnoresValidity == FormRendered /\ ~isLoading

\* <button type="submit" disabled={!isFormValid() || isLoading}>
SubmitEnabled == FormRendered /\ JsTruthy(isFormValid(formData)) /\ ~isLoading

\* The Retry Calculation button without disabled={isLoading}.
RetryEnabledIgnoresLoading == showResults /\ Truthy(estimate) /\ ~RenderThrows

\* The results branch with an estimate: Back to Form, and Retry Calculation
\* with disabled={isLoading}.
RetryEnabled == showResults /\ Truthy(estimate) /\ ~RenderThrows /\ ~isLoading

\* Back to Form: in the results branch with an estimate, and in the error
\* panel of the results page.
BackEnabled ==
    /\ showResults
    /\ ~RenderThrows
    /\ (Truthy(estimate) \/ error # NullMessage)

\* Whether the rendered screen shows the stored message: the banner of the
\* form screen ({error && ...}); on the results screen the error panel, which
\* is the branch taken only when estimate is falsy (estimate ? ... : error ?
\* ... : null). The estimate branch renders no message.
ErrorDisplayed ==
    IF ~showResults
    THEN error # NullMessage
    ELSE IF Truthy(estimate) THEN FALSE ELSE error # NullMessage

\* The Knowledge Base row of the results screen: {formData.knowledgeBaseSize}.
KnowledgeBaseShown == formData.knowledgeBaseSize

(***************************************************************************)
(* The split-pane component (src/src/App_fixed.tsx)                        *)
(***************************************************************************)
\* Its state after construction: the same useState values, no showResults.
fixedInitial ==
    [formData |-> initialFormData, isLoading |-> FALSE, estimate |-> JsNull,
     error |-> NullMessage, inflight |-> <<>>]

\* handleInputChange of App_fixed.tsx.
fixedHandleInputChange(field, value) ==
    fixed' = [fixed EXCEPT !.formData[field] = value]

\* handleSubmit of App_fixed.tsx up to the fetch call: the same payload
\* expression, built from this component's formData.
fixedHandleSubmit ==
    fixed' = [fixed EXCEPT !.isLoading = TRUE,
                           !.error = NullMessage,
                           !.inflight = Append(@, requestData(fixed.formData))]

\* fixedSettle with a failure also discarding the estimate on display.
fixedSettleClearsEstimate(i, r) ==
    fixed' = [fixed EXCEPT
                !.inflight = SubSeq(@, 1, i - 1) \o SubSeq(@, i + 1, Len(@)),
                !.error = IF Throws(r) THEN FailureMessage ELSE @,
                !.estimate = IF Throws(r) THEN JsNull ELSE estimateData(r),
                !.isLoading = FALSE]

\* The rest of handleSubmit of App_fixed.tsx, once its fetch call has settled
\* with r: setEstimate on the success path (no screen to switch), setError in
\* the catch block, setIsLoading(false) in the finally block.
fixedSettle(i, r) ==
    fixed' = [fixed EXCEPT
                !.inflight = SubSeq(@, 1, i - 1) \o SubSeq(@, i + 1, Len(@)),
                !.error = IF Throws(r) THEN FailureMessage ELSE @,
                !.estimate = IF Throws(r) THEN @ ELSE estimateData(r),
                !.isLoading = FALSE]

\* The submit button of App_fixed.tsx: the form is always rendered.
fixedSubmitEnabled ==
    JsTruthy(isFormValid(fixed.formData)) /\ ~fixed.isLoading

(***************************************************************************)
(* Spec: the component driven through its controls                         *)
(***************************************************************************)
Init ==
    /\ formData = initialFormData
    /\ isLoading = FALSE
    /\ estimate = JsNull
    /\ error = NullMessage
    /\ showResults = FALSE
    /\ inflight = <<>>
    /\ lastSubmit = <<>>
    /\ lastOp = "init"
    /\ lastFrom = "Idle"
    /\ lastResponse = NoResponse
    /\ fixed = fixedInitial

Change ==
    /\ FormRendered
    /\ \E field \in ActiveFields : \E value \in FieldValues(field) :
          handleInputChange(field, value)
    /\ lastOp' = "change"
    /\ lastFrom' = CtlState
    /\ lastResponse' = NoResponse
    /\ UNCHANGED fixed

Submit ==
    /\ SubmitEnabled
    /\ handleSubmit("submit")
    /\ lastOp' = "submit"
    /\ lastFrom' = CtlState
    /\ lastResponse' = NoResponse
    /\ UNCHANGED fixed

Retry ==
    /\ RetryEnabled
    /\ handleRetry
    /\ lastOp' = "retry"
    /\ lastFrom' = CtlState
    /\ lastResponse' = NoResponse
    /\ UNCHANGED fixed

BackToForm ==
    /\ BackEnabled
    /\ handleBackToForm
    /\ lastOp' = "back"
    /\ lastFrom' = CtlState
    /\ lastResponse' = NoResponse
    /\ UNCHANGED fixed

Resolve ==
    /\ \E i \in 1..Len(inflight) : \E r \in Responses :
          settle(i, r) /\ lastResponse' = r
    /\ lastOp' = "resolve"
    /\ lastFrom' = CtlState
    /\ UNCHANGED fixed

Next == Change \/ Submit \/ Retry \/ BackToForm \/ Resolve

Spec == Init /\ [][Next]_vars

(***************************************************************************)
(* SpecHandlers: the handlers invoked as operations, in any state          *)
(***************************************************************************)
\* The fields the direct calls of handleInputChange set here.
HandlerFields == {"callsPerDay", "knowledgeBaseSize"}

CallInputChange ==
    /\ \E field \in HandlerFields : \E value \in FieldValues(field) :
          handleInputChange(field, value)
    /\ lastOp' = "change"
    /\ lastFrom' = CtlState
    /\ lastResponse' = NoResponse
    /\ UNCHANGED fixed

CallSubmit ==
    /\ Len(inflight) < MaxInflight
    /\ handleSubmit("submit")
    /\ lastOp' = "submit"
    /\ lastFrom' = CtlState
    /\ lastResponse' = NoResponse
    /\ UNCHANGED fixed

CallRetry ==
    /\ Len(inflight) < MaxInflight
    /\ handleRetry
    /\ lastOp' = "retry"
    /\ lastFrom' = CtlState
    /\ lastResponse' = NoResponse
    /\ UNCHANGED fixed

CallBackToForm ==
    /\ handleBackToForm
    /\ lastOp' = "back"
    /\ lastFrom' = CtlState
    /\ lastResponse' = NoResponse
    /\ UNCHANGED fixed

NextHandlers == CallInputChange \/ CallSubmit \/ CallRetry \/ CallBackToForm \/ Resolve

SpecHandlers == Init /\ [][NextHandlers]_vars

(***************************************************************************)
(* SpecForm: the form model. Every field is set, in any order, to every    *)
(* sampled value; the form is then submitted once, whatever it holds, and  *)
(* the request settles.                                                    *)
(***************************************************************************)
FormUpdate ==
    /\ lastOp \in {"init", "change"}
    /\ \E field \in AllFields : \E value \in FieldValues(field) :
          handleInputChange(field, value)
    /\ lastOp' = "change"
    /\ lastFrom' = CtlState
    /\ lastResponse' = NoResponse
    /\ UNCHANGED fixed

FormSubmit ==
    /\ lastOp \in {"init", "change"}
    /\ handleSubmit("submit")
    /\ lastOp' = "submit"
    /\ lastFrom' = CtlState
    /\ lastResponse' = NoResponse
    /\ UNCHANGED fixed

NextForm == FormUpdate \/ FormSubmit \/ Resolve

SpecForm == Init /\ [][NextForm]_vars

(***************************************************************************)
(* SpecLayouts: the two components side by side. Each step hands both the  *)
(* same input: the same field edit, a click on the submit button (the      *)
(* split-pane form is always on screen; the two-screen handlers are given  *)
(* the same calls), the same outcome of the request each has in flight.    *)
(***************************************************************************)
\* The fields edited here.
LayoutFields == {"callsPerDay", "llmProvider", "sttProvider", "ttsProvider",
                 "knowledgeBaseSize"}

LayoutChange ==
    /\ \E field \in LayoutFields : \E value \in FieldValues(field) :
          handleInputChange(field, value) /\ fixedHandleInputChange(field, value)
    /\ lastOp' = "change"
    /\ lastFrom' = CtlState
    /\ lastResponse' = NoResponse

LayoutSubmit ==
    /\ fixedSubmitEnabled
    /\ JsTruthy(isFormValid(formData)) /\ ~isLoading
    /\ handleSubmit("submit")
    /\ fixedHandleSubmit
    /\ lastOp' = "submit"
    /\ lastFrom' = CtlState
    /\ lastResponse' = NoResponse

LayoutResolve ==
    /\ \E i \in 1..Len(inflight) : \E r \in Responses :
          /\ i <= Len(fixed.inflight)
          /\ settle(i, r)
          /\ fixedSettle(i, r)
          /\ lastResponse' = r
    /\ lastOp' = "resolve"
    /\ lastFrom' = CtlState

NextLayouts == LayoutChange \/ LayoutSubmit \/ LayoutResolve

SpecLayouts == Init /\ [][NextLayouts]_vars

(***************************************************************************)
(* Claims                                                                  *)
(***************************************************************************)
\* The validity of a payload in the words of the specification: the three
\* numeric fields are > 0 and the four categorical fields are non-empty.
AllFieldsSet(p) ==
    /\ p.callsPerDay > 0
    /\ p.avgCallDuration > 0
    /\ p.estimatedUsers > 0
    /\ p.llmProvider # ""
    /\ p.sttProvider # ""
    /\ p.ttsProvider # ""
    /\ p.knowledgeBaseSize # ""

\* C1: at most one network request is outstanding in every state reachable
\* through form edits, submit, retry, back-to-form and network resolutions.
AtMostOneInFlight == Len(inflight) <= 1

\* C1 witness: a retried request is in flight while the form is shown again
\* with valid data, so only the loading flag holds the submit button back.
AtMostOneInFlightReached ==
    /\ Len(inflight) = 1
    /\ inflight[1].by = "retry"
    /\ FormRendered
    /\ JsTruthy(isFormValid(formData))

\* C2: submit invoked while a request is in flight issues no request and
\* leaves the loading flag, the estimate, the message and the screen alone.
SubmitWhileSubmittingIsNoOp ==
    [][(isLoading /\ inflight # <<>> /\ lastOp' = "submit")
         => UNCHANGED <<inflight, isLoading, estimate, error, showResults>>]_vars

\* C3: every request sent, by submit or by retry, carries a payload that
\* passes validation.
EveryRequestPayloadValid ==
    \A i \in DOMAIN inflight : AllFieldsSet(inflight[i].payload)

\* C4: the request a retry issues carries the payload of the most recent
\* submit.
RetrySendsLastSubmitPayload ==
    \A i \in DOMAIN inflight :
        inflight[i].by = "retry" => lastSubmit = <<inflight[i].payload>>

\* C5: a retry issues a request only from Failed.
RetryOnlyFromFailed == lastOp = "retry" => lastFrom = "Failed"

\* C5 as amended: a retry issues a request only while the results screen
\* shows a stored estimate and no request is in flight, that is from Success
\* or from the Failed state a failed retry leaves; never in Idle or
\* Submitting.
RetryOnlyFromDisplayedEstimate ==
    [][lastOp' = "retry"
         => /\ showResults
            /\ Truthy(estimate)
            /\ inflight = <<>>
            /\ CtlState \in {"Success", "Failed"}]_vars

\* C5 witness: a retry was issued from Success.
RetryFromSuccessReached ==
    /\ lastOp = "retry"
    /\ lastFrom = "Success"
    /\ Len(inflight) = 1

\* C6: reset from Success or from Failed clears the estimate and the message
\* and returns to Idle with the form screen shown.
ResetReturnsToIdle ==
    (lastOp = "back" /\ lastFrom \in {"Success", "Failed"})
        => /\ estimate = JsNull
           /\ error = NullMessage
           /\ ~showResults
           /\ CtlState = "Idle"

\* C6 witness: reset ran in a Failed state (a message was stored).
ResetFromFailedReached ==
    /\ lastOp = "back"
    /\ lastFrom = "Failed"
    /\ CtlState = "Idle"

\* C7: while a request is in flight no reset/back action changes the
\* estimate, the message or the active screen.
NoResetWhileSubmitting ==
    [][(isLoading /\ lastOp' = "back")
         => UNCHANGED <<estimate, error, showResults>>]_vars

\* C8: backToForm switches to the form screen and leaves the stored estimate
\* and message unchanged.
BackToFormKeepsEstimateAndMessage ==
    [][lastOp' = "back"
         => (~showResults' /\ UNCHANGED <<estimate, error>>)]_vars

\* C8 as amended: backToForm switches to the form screen and clears the
\* stored estimate and message; the form data, the loading flag and the
\* request in flight are left unchanged.
BackToFormClearsEstimateAndMessage ==
    [][lastOp' = "back"
         => /\ ~showResults'
            /\ estimate' = JsNull
            /\ error' = NullMessage
            /\ UNCHANGED <<formData, isLoading, inflight>>]_vars

\* C8 witness: back-to-form ran on the results of a successful submission.
BackToFormFromResultsReached ==
    /\ lastOp = "back"
    /\ lastFrom = "Success"
    /\ ~showResults
    /\ estimate = JsNull

\* C9: validate is true iff the three numeric fields are > 0 and the four
\* categorical fields are non-empty, whatever order the fields were set in.
ValidateIffAllFieldsSet ==
    JsTruthy(isFormValid(formData)) <=> AllFieldsSet(formData)

\* C9 witness: a form that passes validation with its inactive fields set,
\* after the fields were edited.
ValidFormReached ==
    /\ lastOp = "change"
    /\ JsTruthy(isFormValid(formData))
    /\ formData.selfHosted
    /\ formData.customSttProvider # ""

\* C10: the request payload has selfHosted = false and gpuInstanceType = ""
\* and none of the three custom-provider fields, whatever the form stores.
PayloadForcesDisabledFields ==
    \A i \in DOMAIN inflight :
        /\ inflight[i].payload.selfHosted = FALSE
        /\ inflight[i].payload.gpuInstanceType = ""
        /\ DOMAIN inflight[i].payload \cap CustomFields = {}

\* C10 witness: a request was sent from a form whose inactive fields are set.
PayloadOfFormWithInactiveFieldsReached ==
    /\ inflight # <<>>
    /\ formData.selfHosted
    /\ formData.gpuInstanceType # ""
    /\ \A f \in CustomFields : formData[f] # ""

\* C11: the payload a submit sends holds the seven active fields of the form
\* data as they are when submit is invoked, and nothing else but the two
\* forced fields, so it is determined by the form data.
PayloadProjectsActiveFields ==
    lastOp \in {"submit", "retry"} =>
        LET p == inflight[Len(inflight)].payload
        IN  /\ \A f \in ActiveFields : p[f] = formData[f]
            /\ DOMAIN p \ ActiveFields = {"selfHosted", "gpuInstanceType"}

\* C11 witness: a submit was issued from a form with edited active fields
\* (one of them invalid) and set inactive fields.
PayloadOfEditedFormReached ==
    /\ lastOp = "submit"
    /\ formData.callsPerDay = -1
    /\ formData.knowledgeBaseSize = "Medium (1-10MB)"
    /\ formData.llmProvider = "OpenAI"
    /\ formData.customLlmProvider # ""
    /\ inflight[1].payload.knowledgeBaseSize = "Medium (1-10MB)"

\* A resolution with a success status whose body is a well-formed estimate
\* record or a one-element list of it.
WellFormedResponse(r) ==
    /\ r.net = "resolved" /\ r.ok /\ r.json
    /\ Len(r.items) = 1
    /\ r.items[1].k = "object"
    /\ r.items[1].missing = ""

\* C12: a success status with a well-formed record, or a one-element list of
\* it, moves the controller from Submitting to Success, activates the results
\* screen and stores that record unchanged.
SuccessStoresRecord ==
    (lastOp = "resolve" /\ WellFormedResponse(lastResponse))
        => /\ lastFrom = "Submitting"
           /\ CtlState = "Success"
           /\ showResults
           /\ estimate = lastResponse.items[1]

\* C12 witness: a one-element list settled a submission made on the form
\* screen.
SuccessFromListReached ==
    /\ lastOp = "resolve"
    /\ WellFormedResponse(lastResponse)
    /\ lastResponse.isArray
    /\ estimate = JsObject(1, "")
    /\ showResults

\* C13: a non-success status or a transport failure moves the controller
\* from Submitting to Failed whatever the body holds, and the body is not
\* stored as the estimate.
NonOkStatusFails ==
    [][(lastOp' = "resolve"
          /\ (lastResponse'.net = "rejected" \/ ~lastResponse'.ok))
         => /\ CtlState = "Submitting"
            /\ CtlState' = "Failed"
            /\ estimate' = estimate
            /\ estimate' # ErrorBody]_vars

\* C13 witness: a non-ok response with a complete estimate record as its
\* body settled a submission.
NonOkWithBodyReached ==
    /\ lastOp = "resolve"
    /\ lastResponse.net = "resolved"
    /\ ~lastResponse.ok
    /\ lastResponse.items = <<ErrorBody>>
    /\ CtlState = "Failed"

\* The normalizer of the specification fails on r: a success status whose
\* decoded document is an empty list, or unwraps to something that is not a
\* record, or to a record lacking a required key.
NormalizerFails(r) ==
    /\ r.net = "resolved" /\ r.ok /\ r.json
    /\ \/ Len(r.items) = 0
       \/ r.items[1].k # "object"
       \/ r.items[1].missing # ""

\* A failed resolution in the words of the specification: transport failure,
\* non-success status, undecodable body or malformed body.
FailedResolution(r) == Throws(r) \/ NormalizerFails(r)

\* C14: every failed resolution leaves the stored estimate as it was before.
FailedResolutionKeepsEstimate ==
    [][(lastOp' = "resolve" /\ FailedResolution(lastResponse'))
         => estimate' = estimate]_vars

\* C15: after any failed resolution the active screen is the form screen.
FailedResolutionShowsForm ==
    (lastOp = "resolve" /\ FailedResolution(lastResponse)) => ~showResults

\* C16: a success-status response whose document lacks a required key moves
\* the controller to Failed and is not stored as the estimate.
MissingKeyFails ==
    (/\ lastOp = "resolve"
     /\ NormalizerFails(lastResponse)
     /\ Len(lastResponse.items) >= 1
     /\ lastResponse.items[1].k = "object")
        => /\ CtlState = "Failed"
           /\ estimate # lastResponse.items[1]

\* C17: a success-status response that is an empty list moves the controller
\* to Failed, replaces no estimate and does not activate the results screen.
EmptyListFails ==
    [][(/\ lastOp' = "resolve"
        /\ NormalizerFails(lastResponse')
        /\ lastResponse'.isArray
        /\ Len(lastResponse'.items) = 0)
         => /\ CtlState' = "Failed"
            /\ estimate' = estimate
            /\ showResults' = showResults]_vars

\* C18: a success-status response that is null or a scalar moves the
\* controller to Failed, replaces no estimate and does not activate the
\* results screen.
ScalarOrNullFails ==
    [][(/\ lastOp' = "resolve"
        /\ NormalizerFails(lastResponse')
        /\ ~lastResponse'.isArray
        /\ lastResponse'.items[1].k \in {"null", "number"})
         => /\ CtlState' = "Failed"
            /\ estimate' = estimate
            /\ showResults' = showResults]_vars

\* C19: for a well-formed record d, the estimate stored from d equals the
\* estimate normalizing the one-element list [d] gives, and the other way
\* round; the rest of the controller state is the same Success state.
ListAndRecordNormalizeAlike ==
    (lastOp = "resolve" /\ WellFormedResponse(lastResponse))
        => /\ estimate = estimateData([lastResponse EXCEPT !.isArray = ~@])
           /\ ~isLoading
           /\ error = NullMessage
           /\ showResults

\* C19 witness: a bare record settled a retry, and its one-element list is
\* a response too.
RecordNormalizedReached ==
    /\ lastOp = "resolve"
    /\ WellFormedResponse(lastResponse)
    /\ ~lastResponse.isArray
    /\ [lastResponse EXCEPT !.isArray = TRUE] \in Responses
    /\ estimate = JsObject(1, "")

\* C20: every failure, whatever its cause, ends in Failed with the one
\* generic message.
EveryFailureStoresGenericMessage ==
    (lastOp = "resolve" /\ FailedResolution(lastResponse))
        => /\ CtlState = "Failed"
           /\ error = FailureMessage

SomeControlAvailable == FormRendered \/ RetryEnabled \/ BackEnabled

\* C21: no state is terminal: in every reachable state with no request in
\* flight the user has some action (the form to fill and submit, retry, or
\* back to the form) that leads on to a new submission.
NoTerminalState == inflight = <<>> => SomeControlAvailable

\* A resolution the specification counts as a success: a 2xx response whose
\* body decodes and normalizes to a record.
SuccessfulResolution(r) == ~FailedResolution(r)

\* C22: the results screen becomes active only by a Success transition: a
\* step that switches from the form screen to the results screen is the
\* successful resolution of a submission; edits, submissions and failed
\* resolutions leave the form screen on.
ResultsScreenOnlyBySuccess ==
    [][(~showResults /\ showResults') =>
          (lastOp' = "resolve" /\ SuccessfulResolution(lastResponse'))]_vars

NumericFields == {"callsPerDay", "avgCallDuration", "estimatedUsers"}

CategoricalFields == {"llmProvider", "sttProvider", "ttsProvider",
                      "knowledgeBaseSize"}

\* C24 as stated: the three numeric fields are > 0 in every reachable state.
NumericFieldsPositive == \A f \in NumericFields : formData[f] > 0

\* C24: the three numeric fields hold an integer in every reachable state (0
\* for an empty or non-numeric input, a negative number when one is typed);
\* they are all > 0 in every state where the submit button is enabled.
NumericFieldsIntegerAndPositiveWhenSubmittable ==
    \A f \in NumericFields :
        /\ formData[f] \in Int
        /\ SubmitEnabled => formData[f] > 0

\* Non-positive numbers typed into a form whose selects are all set.
NonPositiveNumbersStored ==
    /\ lastOp = "change"
    /\ formData.callsPerDay = -1
    /\ formData.estimatedUsers = 0
    /\ \A f \in CategoricalFields : formData[f] # ""
    /\ ~SubmitEnabled
    /\ ~isLoading

\* C25: the stored estimate is null or exactly the unwrapped body of one
\* successful response: never a partially populated value.
EstimateNullOrWholeRecord ==
    \/ estimate = JsNull
    \/ \E r \in Responses :
          SuccessfulResolution(r) /\ estimate = estimateData(r)

\* C26: only an update changes the form data: submit, retry, back to form and
\* every resolution leave all FormData fields as they were.
OnlyUpdateChangesFormData ==
    [][formData' # formData => lastOp' = "change"]_vars

\* Back to Form pressed with an edited form: the form is still the edited one.
EditedFormKeptByBackToForm ==
    /\ lastOp = "back"
    /\ formData.llmProvider = "OpenAI"
    /\ formData.callsPerDay = 0
    /\ estimate = JsNull

\* C27: an update replaces exactly the named field with the given value and
\* leaves every other field and the controller state (loading flag, estimate,
\* message, screen, requests in flight) unchanged.
UpdateReplacesOneField ==
    [][lastOp' = "change" =>
         /\ \E field \in ActiveFields : \E value \in FieldValues(field) :
               formData' = [formData EXCEPT ![field] = value]
         /\ UNCHANGED <<isLoading, estimate, error, showResults, inflight>>]_vars

\* A field edited while a request is in flight and an earlier failure's form
\* holds other edits.
FieldEditedWhileSubmitting ==
    /\ lastOp = "change"
    /\ lastFrom = "Submitting"
    /\ isLoading
    /\ formData.callsPerDay = 0
    /\ formData.llmProvider = "OpenAI"
    /\ Len(inflight) = 1
    /\ inflight[1].payload.callsPerDay = 50

\* C28: the initial state is Idle on the form screen, with nothing in flight,
\* no estimate and no message; the initial form (50, 5, 10, no option chosen)
\* fails validation, so nothing is submitted before the four categorical
\* fields are set.
InitialStateIdleAndFormInvalid ==
    /\ lastOp = "init" =>
          /\ CtlState = "Idle"
          /\ FormRendered
          /\ inflight = <<>>
          /\ estimate = JsNull
          /\ error = NullMessage
          /\ formData.callsPerDay = 50
          /\ formData.avgCallDuration = 5
          /\ formData.estimatedUsers = 10
          /\ \A f \in CategoricalFields : formData[f] = ""
          /\ ~JsTruthy(isFormValid(formData))
          /\ ~SubmitEnabled
    /\ lastSubmit = <<>> => (inflight = <<>> /\ estimate = JsNull)
    /\ lastSubmit # <<>> =>
          \A f \in CategoricalFields : lastSubmit[1][f] # ""

\* The first submission: issued from Idle, after the four selects were set.
FirstSubmissionIssued ==
    /\ lastOp = "submit"
    /\ lastFrom = "Idle"
    /\ estimate = JsNull
    /\ Len(inflight) = 1
    /\ \A f \in CategoricalFields : inflight[1].payload[f] # ""

\* C29: every resolution clears the loading flag; a success, a non-success
\* status and a transport or decode failure end in Success or Failed; and the
\* controller leaves Submitting by a resolution only.
ResolutionEndsSubmitting ==
    [][/\ lastOp' = "resolve" => ~isLoading'
       /\ (/\ lastOp' = "resolve"
           /\ (Throws(lastResponse') \/ SuccessfulResolution(lastResponse')))
             => (IF Throws(lastResponse')
                 THEN CtlState' = "Failed" ELSE CtlState' = "Success")
       /\ (CtlState = "Submitting" /\ CtlState' # "Submitting")
             => lastOp' = "resolve"]_vars

\* A body that does not decode: the request that was in flight is settled,
\* the flag is cleared and the controller is Failed.
DecodeFailureEndsSubmitting ==
    /\ lastOp = "resolve"
    /\ lastFrom = "Submitting"
    /\ lastResponse.net = "resolved" /\ lastResponse.ok /\ ~lastResponse.json
    /\ ~isLoading
    /\ CtlState = "Failed"

\* C30: the submit button is enabled exactly when the form data is valid and
\* no request is in flight (wherever the form is rendered); it is disabled
\* in every Submitting state and in every state with invalid form data.
SubmitEnabledIffValidAndNothingInFlight ==
    /\ FormRendered =>
          (SubmitEnabled <=> (AllFieldsSet(formData) /\ inflight = <<>>))
    /\ CtlState = "Submitting" => ~SubmitEnabled
    /\ ~AllFieldsSet(formData) => ~SubmitEnabled

\* A valid form on screen while its request is in flight: the button is
\* disabled by the loading flag alone.
ValidFormDisabledWhileSubmitting ==
    /\ FormRendered
    /\ AllFieldsSet(formData)
    /\ CtlState = "Submitting"
    /\ inflight # <<>>
    /\ ~SubmitEnabled

EstimateAndMessagePresent == estimate # JsNull /\ error # NullMessage

\* C31 as stated: a stored estimate and a failure message are never both
\* present.
NeverEstimateAndMessage == ~EstimateAndMessagePresent

\* C31: a stored estimate and a failure message are both present only after
\* a request issued while an estimate was stored has failed (the failure
\* keeps the estimate and stores the message); a successful resolution
\* leaves no message.
EstimateAndMessageOnlyAfterFailedRetry ==
    [][/\ (EstimateAndMessagePresent' /\ ~EstimateAndMessagePresent)
            => /\ lastOp' = "resolve"
               /\ Throws(lastResponse')
               /\ estimate' = estimate
       /\ (lastOp' = "resolve" /\ ~Throws(lastResponse'))
            => error' = NullMessage]_vars

\* A retry failed: the results screen holds the earlier estimate and the
\* message.
FailedRetryKeepsEstimate ==
    /\ lastOp = "resolve"
    /\ lastFrom = "Submitting"
    /\ lastResponse.net = "rejected"
    /\ showResults
    /\ Truthy(estimate)
    /\ error = FailureMessage

\* C32: whenever the results screen is active the stored estimate is
\* non-null.
ResultsScreenHasEstimate ==
    showResults => (estimate # JsNull /\ estimate # JsUndefined)

\* C33: every stored failure message is displayed on the rendered screen.
StoredMessageDisplayed == error # NullMessage => ErrorDisplayed

\* C34: when a resolution puts an estimate on the results screen, the
\* knowledge-base size shown there is the one of the payload of the request
\* that was answered.
KnowledgeBaseShownIsPayloads ==
    [][(/\ lastOp' = "resolve"
        /\ Len(inflight) = 1
        /\ showResults'
        /\ ~Throws(lastResponse'))
          => KnowledgeBaseShown' = inflight[1].payload.knowledgeBaseSize]_vars

\* C35: the loading flag is true exactly when a request is in flight, and
\* that is one request.
LoadingIffRequestInFlight ==
    /\ isLoading <=> inflight # <<>>
    /\ Len(inflight) <= 1

\* Back to Form pressed while a retry is in flight: the request is still in
\* flight and the flag is still set.
LoadingAfterBackDuringRetry ==
    /\ lastOp = "back"
    /\ lastFrom = "Submitting"
    /\ isLoading
    /\ Len(inflight) = 1
    /\ inflight[1].by = "retry"

\* C36: no failure message is stored while a request is in flight: starting
\* a submission clears the message and keeps the stored estimate, which stays
\* as it is until the request resolves.
NoMessageWhileLoadingEstimateKept ==
    [][/\ isLoading' => error' = NullMessage
       /\ lastOp' \in {"submit", "retry"}
            => (isLoading' /\ estimate' = estimate)
       /\ (isLoading /\ lastOp' # "resolve") => estimate' = estimate]_vars

\* C37: a structurally complete response is accepted as Success and stored as
\* received: a range triple that violates min <= avg <= max is neither
\* reordered nor corrected.
RangeTripleStoredAsReceived ==
    (/\ lastOp = "resolve"
     /\ ~Throws(lastResponse)
     /\ Len(lastResponse.items) >= 1
     /\ lastResponse.items[1].k = "object"
     /\ lastResponse.items[1].missing = "")
        => /\ CtlState = "Success"
           /\ showResults
           /\ ~RenderThrows
           /\ estimate = lastResponse.items[1]
           /\ estimate.range = lastResponse.items[1].range

\* The record with the out-of-order triple is on display.
UnorderedRangeStored ==
    /\ lastOp = "resolve"
    /\ lastResponse.items = <<JsObjectWithRange(5, "", UnorderedRange)>>
    /\ CtlState = "Success"
    /\ estimate.range.min > estimate.range.avg
    /\ estimate.range.avg > estimate.range.max

\* C38: the error panel of the results screen is unreachable: the results
\* screen is never active with no estimate and a stored message.
ErrorPanelUnreachable ==
    ~(showResults /\ ~Truthy(estimate) /\ error # NullMessage)

\* A retry failed: the results screen is active with a message, which it holds
\* next to the estimate and renders through the estimate branch.
ResultsScreenWithMessageAndEstimate ==
    /\ showResults
    /\ error # NullMessage
    /\ Truthy(estimate)
    /\ ~ErrorDisplayed
    /\ BackEnabled
    /\ RetryEnabled

====
